---- MODULE Spec2Model ----
(***************************************************************************)
(* Model of pro_users.py: the User / Customer / Admin classes, the         *)
(* class-level registry User.users and AuthenticationService.              *)
(*                                                                         *)
(* Strings that the code takes apart (passwords, salts, digests, tokens)   *)
(* are sequences of one-character strings; strings that are only compared  *)
(* or interpolated (usernames, emails, message texts) are TLA+ strings.    *)
(* An f-string is the tuple of its literal and interpolated parts.  The    *)
(* message texts of the source are Russian; the model carries their        *)
(* English translation.                                                    *)
(* An optional value (X | None) is a sequence of length at most one.       *)
(***************************************************************************)
EXTENDS Integers, Sequences, FiniteSets, TLC

\* ------------------------------------------------------------------ bounds
\* Number of values the random source (uuid.uuid4) hands out in one run.
MaxUuid == 3
\* Number of hexadecimal digits of uuid4().hex kept by the model (32 in Python).
UuidLen == 2
\* Number of AuthenticationService instances sharing User.users.
NumServices == 1
\* Longest password the hashing harness draws.
MaxPwLen == 2
\* Longest malformed stored digest the hashing harness draws.
MaxDigestLen == 3
\* Number of threads calling into the module at the same time.
NumThreads == 2

\* ------------------------------------------------------------------ inputs
Usernames == {"mikhail", "root"}
Emails == {"mikhail@example.com"}
Addresses == {"Moscow, Red Square"}
AdminLevels == {10}
UserClasses == {"Customer", "Admin"}
\* Passwords given to register and login.
Passwords == {<<"a">>, <<"a", "$">>}
\* Characters of the passwords the hashing harness draws.
PwChars == {"a", "0", "$"}
Services == 1..NumServices
Threads == 1..NumThreads

None == <<>>
Some(x) == <<x>>

\* ----------------------------------------------------------------- strings
HexDigits ==
    <<"0", "1", "2", "3", "4", "5", "6", "7", "8", "9", "a", "b", "c", "d", "e", "f">>

\* The two hexadecimal digits of the UTF-8 byte of an ASCII character.
Utf8Hex(c) ==
    CASE c = "$" -> <<"2", "4">>
      [] c = "0" -> <<"3", "0">>
      [] c = "1" -> <<"3", "1">>
      [] c = "2" -> <<"3", "2">>
      [] c = "3" -> <<"3", "3">>
      [] c = "4" -> <<"3", "4">>
      [] c = "5" -> <<"3", "5">>
      [] c = "6" -> <<"3", "6">>
      [] c = "7" -> <<"3", "7">>
      [] c = "8" -> <<"3", "8">>
      [] c = "9" -> <<"3", "9">>
      [] c = "a" -> <<"6", "1">>
      [] c = "b" -> <<"6", "2">>
      [] c = "c" -> <<"6", "3">>
      [] c = "d" -> <<"6", "4">>
      [] c = "e" -> <<"6", "5">>
      [] c = "f" -> <<"6", "6">>

\* hashlib.sha256(s.encode("utf-8")).hexdigest(): a string of hexadecimal
\* digits determined by the bytes of s.  The hash is idealised as collision
\* free: the digest is the hexadecimal rendering of the bytes themselves.
RECURSIVE sha256_hexdigest(_)
sha256_hexdigest(s) ==
    IF s = <<>> THEN <<>> ELSE Utf8Hex(Head(s)) \o sha256_hexdigest(Tail(s))

\* The low `len` hexadecimal digits of n, most significant first.
RECURSIVE ToHex(_, _)
ToHex(n, len) ==
    IF len = 0 THEN <<>> ELSE Append(ToHex(n \div 16, len - 1), HexDigits[(n % 16) + 1])

\* uuid.uuid4().hex for the n-th value of the random source: the source is a
\* supply of fresh values, rendered as a fixed-length hexadecimal string.
uuid4_hex(n) == ToHex(n, UuidLen)

\* s.split("$", maxsplit=1): the fields of s around its first "$".
RECURSIVE split_first(_, _)
split_first(s, acc) ==
    IF s = <<>> THEN <<acc>>
    ELSE IF Head(s) = "$" THEN <<acc, Tail(s)>>
    ELSE split_first(Tail(s), Append(acc, Head(s)))

\* The digest taken over password + salt instead of salt + password.
hash_password_salt_last(password, n) ==
    LET salt == uuid4_hex(n)
        hash_value == sha256_hexdigest(password \o salt)
    IN  salt \o <<"$">> \o hash_value

\* User.hash_password, with n the position of the random source.
hash_password(password, n) ==
    LET salt == uuid4_hex(n)
        hash_value == sha256_hexdigest(salt \o password)
    IN  salt \o <<"$">> \o hash_value

\* The ValueError of the unpacking answered with True instead of False.
check_password_malformed_ok(stored_password, provided_password) ==
    LET parts == split_first(stored_password, <<>>)
    IN  IF Len(parts) # 2
        THEN TRUE
        ELSE parts[2] = sha256_hexdigest(parts[1] \o provided_password)

\* The recalculated hash taken over the provided password without the salt.
check_password_unsalted(stored_password, provided_password) ==
    LET parts == split_first(stored_password, <<>>)
    IN  IF Len(parts) # 2
        THEN FALSE
        ELSE parts[2] = sha256_hexdigest(provided_password)

\* User.check_password.
check_password(stored_password, provided_password) ==
    LET parts == split_first(stored_password, <<>>)
    IN  IF Len(parts) # 2
        THEN FALSE
        ELSE LET salt == parts[1]
                 stored_hash == parts[2]
                 recalculated_hash == sha256_hexdigest(salt \o provided_password)
             IN  stored_hash = recalculated_hash

\* ----------------------------------------------------------------- classes
\* User.__init__: the fields every principal carries; the password is kept
\* only as the salted digest.
User(username, email, password, n) ==
    [username |-> username, email |-> email,
     password_hashed |-> hash_password(password, n)]

\* Customer.__init__.
Customer(username, email, password, address, n) ==
    [cls |-> "Customer", address |-> address] @@ User(username, email, password, n)

\* Admin.__init__.
Admin(username, email, password, admin_level, n) ==
    [cls |-> "Admin", admin_level |-> admin_level] @@ User(username, email, password, n)

\* get_details, dispatched on the class of the principal.
get_details(user) ==
    IF user.cls = "Customer"
    THEN <<"Customer: ", user.username, ", Email: ", user.email,
           ", Address: ", user.address>>
    ELSE <<"Admin: ", user.username, ", Email: ", user.email,
           ", Access level: ", user.admin_level>>

\* The *args a caller passes to register for each class.
VariantArgs(user_class) ==
    IF user_class = "Customer" THEN Addresses ELSE AdminLevels

\* user_class(username, email, password, *args).
new_user(user_class, username, email, password, arg, n) ==
    IF user_class = "Customer"
    THEN Customer(username, email, password, arg, n)
    ELSE Admin(username, email, password, arg, n)

\* ------------------------------------------------------------------- state
VARIABLES
    users,          \* User.users: the class-level list of principals
    current_user,   \* current_user of each AuthenticationService
    session_token,  \* session_token of each AuthenticationService
    uuid_next,      \* position of the random source behind uuid.uuid4
    call,           \* the last call made: method, instance, arguments
    ret,            \* the value the last call returned
    printed,        \* the lines the last call printed
    issued,         \* history: the session tokens issued so far
    given_password, \* history: digest and plaintext of the principals of User.users
    deleted,        \* history: the usernames delete_user has removed
    hashrun,        \* the hashing harness (SpecHash)
    threads         \* the calls in progress on concurrent threads

vars ==
    <<users, current_user, session_token, uuid_next, call, ret, printed, issued,
      given_password, deleted, hashrun, threads>>

\* The session of one service as the pair <<current_user, session_token>>.
Session(s) == <<current_user[s], session_token[s]>>

\* The username of an optional principal, as an optional string.
NameOf(cur) == IF cur = None THEN None ELSE Some(cur[1].username)

Call(op, s, username, password) ==
    [op |-> op, svc |-> s, username |-> username, password |-> password,
     prior |-> IF s \in Services THEN NameOf(current_user[s]) ELSE None]

NoHashRun == [password |-> <<>>, provided |-> <<>>, n |-> 0, stored |-> None,
              result |-> None]

\* User.users = [] and AuthenticationService.__init__ for each instance.
Init ==
    /\ users = <<>>
    /\ current_user = [s \in Services |-> None]
    /\ session_token = [s \in Services |-> None]
    /\ uuid_next = 0
    /\ call = [op |-> "none", svc |-> 0, username |-> "", password |-> <<>>,
               prior |-> None]
    /\ ret = None
    /\ printed = <<>>
    /\ issued = {}
    /\ given_password = {}
    /\ deleted = {}
    /\ threads = <<>>
    /\ hashrun = NoHashRun

\* ---------------------------------------------------------------- registry
\* The uniqueness scan left out: no username is ever found taken.
username_taken_never(us, username) == FALSE

\* The uniqueness scan of register: some principal carries the username.
username_taken(us, username) ==
    \E i \in 1..Len(us) : us[i].username = username

\* Index of the first principal with the username in iteration order, 0 if
\* the loop ends without a match.
find_user(us, username) ==
    IF username_taken(us, username)
    THEN CHOOSE i \in 1..Len(us) :
            /\ us[i].username = username
            /\ \A j \in 1..(i - 1) : us[j].username # username
    ELSE 0

\* list.remove(x): the list without its first element equal to x.
list_remove(us, x) ==
    LET k == CHOOSE i \in 1..Len(us) :
                /\ us[i] = x
                /\ \A j \in 1..(i - 1) : us[j] # x
    IN  [i \in 1..(Len(us) - 1) |-> IF i < k THEN us[i] ELSE us[i + 1]]

\* The principal constructed before the scan: the constructor has appended
\* it by the time the duplicate is found.
register_users_eager(us, user_class, username, email, password, arg, n) ==
    Append(us, new_user(user_class, username, email, password, arg, n))

\* The new principal put at the head of the list.
register_users_prepend(us, user_class, username, email, password, arg, n) ==
    IF username_taken(us, username)
    THEN us
    ELSE <<new_user(user_class, username, email, password, arg, n)>> \o us

\* A register for a taken username that replaces the principal found.
register_users_upsert(us, user_class, username, email, password, arg, n) ==
    IF username_taken(us, username)
    THEN [us EXCEPT ![find_user(us, username)] =
             new_user(user_class, username, email, password, arg, n)]
    ELSE Append(us, new_user(user_class, username, email, password, arg, n))

\* User.users after register: the scan returns before anything is
\* constructed; otherwise the constructor appends the new principal.
register_users(us, user_class, username, email, password, arg, n) ==
    IF username_taken(us, username)
    THEN us
    ELSE Append(us, new_user(user_class, username, email, password, arg, n))

\* A register that logs the new principal in.
register_session_autologin(session, us, user_class, username, email, password, arg, n) ==
    IF username_taken(us, username)
    THEN session
    ELSE <<Some(new_user(user_class, username, email, password, arg, n)),
           Some(uuid4_hex(n))>>

\* <<current_user, session_token>> of the service after register: the method
\* assigns neither field.
register_session(session, us, user_class, username, email, password, arg, n) ==
    session

\* AuthenticationService.register.
register(s, user_class, username, email, password, arg) ==
    /\ username_taken(users, username) \/ uuid_next < MaxUuid
    /\ call' = Call("register", s, username, <<>>)
    /\ users' = register_users(users, user_class, username, email, password, arg,
                               uuid_next)
    /\ IF username_taken(users, username)
       THEN /\ ret' = <<"Error: user named ", username, " already exists.">>
            /\ UNCHANGED <<uuid_next, given_password>>
       ELSE /\ uuid_next' = uuid_next + 1
            /\ given_password' =
                   given_password \cup
                       {[password |-> password,
                         digest |-> hash_password(password, uuid_next)]}
            /\ ret' = <<"User ", username, " successfully registered as ",
                        user_class, ".">>
    /\ LET session == register_session(Session(s), users, user_class, username,
                                       email, password, arg, uuid_next)
       IN  /\ current_user' = [current_user EXCEPT ![s] = session[1]]
           /\ session_token' = [session_token EXCEPT ![s] = session[2]]
    /\ printed' = <<>>
    /\ UNCHANGED <<issued, deleted, hashrun, threads>>

\* ------------------------------------------------------------------ session
\* The branch login takes: the scan stops at the first principal with the
\* username and checks the password against that principal's digest.
login_outcome(us, username, password) ==
    LET i == find_user(us, username)
    IN  IF i = 0 THEN "not_found"
        ELSE IF check_password(us[i].password_hashed, password) THEN "ok"
        ELSE "wrong_password"

\* A token generated once and reused by every login.
new_session_token_fixed(n) == uuid4_hex(0)

\* self.session_token = uuid.uuid4().hex, n the position of the random source.
new_session_token(n) == uuid4_hex(n)

\* A login that keeps a session that is already open.
login_session_keep(session, us, username, password, n) ==
    IF login_outcome(us, username, password) = "ok" /\ session[1] = None
    THEN <<Some(us[find_user(us, username)]), Some(new_session_token(n))>>
    ELSE session

\* A failed login that also drops the session.
login_session_reset(session, us, username, password, n) ==
    IF login_outcome(us, username, password) = "ok"
    THEN <<Some(us[find_user(us, username)]), Some(new_session_token(n))>>
    ELSE <<None, None>>

\* <<current_user, session_token>> of the service after login.
login_session(session, us, username, password, n) ==
    IF login_outcome(us, username, password) = "ok"
    THEN <<Some(us[find_user(us, username)]), Some(new_session_token(n))>>
    ELSE session

\* AuthenticationService.login.
login(s, username, password) ==
    LET outcome == login_outcome(users, username, password)
        session == login_session(Session(s), users, username, password, uuid_next)
    IN  /\ outcome = "ok" => uuid_next < MaxUuid
        /\ call' = Call("login", s, username, password)
        /\ current_user' = [current_user EXCEPT ![s] = session[1]]
        /\ session_token' = [session_token EXCEPT ![s] = session[2]]
        /\ IF outcome = "ok"
           THEN /\ uuid_next' = uuid_next + 1
                /\ issued' = issued \cup {new_session_token(uuid_next)}
                /\ ret' = <<"Login succeeded. Current user: ", username,
                            ", session token: ", session[2][1]>>
           ELSE /\ UNCHANGED <<uuid_next, issued>>
                /\ ret' = IF outcome = "wrong_password"
                          THEN <<"Error: wrong password.">>
                          ELSE <<"Error: user ", username, " not found.">>
        /\ printed' = <<>>
        /\ UNCHANGED <<users, given_password, deleted, hashrun, threads>>

\* A logout that clears current_user and leaves the token.
logout_session_keeps_token(session) ==
    IF session[1] = None THEN session ELSE <<None, session[2]>>

\* A logout that clears the token and leaves current_user.
logout_session_keeps_user(session) ==
    IF session[1] = None THEN session ELSE <<session[1], None>>

\* <<current_user, session_token>> of the service after logout.
logout_session(session) ==
    IF session[1] = None THEN session ELSE <<None, None>>

\* AuthenticationService.logout.
logout(s) ==
    LET session == logout_session(Session(s))
    IN  /\ call' = Call("logout", s, "", <<>>)
        /\ current_user' = [current_user EXCEPT ![s] = session[1]]
        /\ session_token' = [session_token EXCEPT ![s] = session[2]]
        /\ ret' = IF current_user[s] = None
                  THEN <<"Error: nobody is logged in.">>
                  ELSE <<"User ", current_user[s][1].username, " logged out.">>
        /\ printed' = <<>>
        /\ UNCHANGED <<users, uuid_next, issued, given_password, deleted, hashrun, threads>>

\* The string get_current_user returns for a service whose current_user is cur.
current_user_message(cur) ==
    IF cur = None
    THEN <<"Nobody is logged in now.">>
    ELSE <<"Now in the system: ", get_details(cur[1])>>

\* AuthenticationService.get_current_user.
get_current_user(s) ==
    /\ call' = Call("get_current_user", s, "", <<>>)
    /\ ret' = current_user_message(current_user[s])
    /\ printed' = <<>>
    /\ UNCHANGED <<users, current_user, session_token, uuid_next, issued,
                   given_password, deleted, hashrun, threads>>

\* ------------------------------------------------------------------- admin
\* The lines Admin.list_users prints for the registry us.
list_users_lines(us) ==
    IF us = <<>>
    THEN <<"No users yet.">>
    ELSE <<"User list:">> \o [i \in 1..Len(us) |-> <<"-", get_details(us[i])>>]

\* Admin.list_users: a static method, callable without a service instance.
list_users ==
    /\ call' = Call("list_users", 0, "", <<>>)
    /\ printed' = list_users_lines(users)
    /\ ret' = None
    /\ UNCHANGED <<users, current_user, session_token, uuid_next, issued,
                   given_password, deleted, hashrun, threads>>

\* A delete that drops the last principal of the list instead of the one
\* found.
delete_user_users_pop(us, username) ==
    LET i == find_user(us, username)
    IN  IF i = 0 THEN us ELSE SubSeq(us, 1, Len(us) - 1)

\* User.users after Admin.delete_user: the first principal with the username
\* in a copy of the list is removed from the list.
delete_user_users(us, username) ==
    LET i == find_user(us, username)
    IN  IF i = 0 THEN us ELSE list_remove(us, us[i])

\* Admin.delete_user: a static method, callable without a service instance.
delete_user(username) ==
    LET i == find_user(users, username)
    IN  /\ call' = Call("delete_user", 0, username, <<>>)
        /\ users' = delete_user_users(users, username)
        /\ IF i = 0
           THEN /\ printed' = << <<"User ", username, " not found.">> >>
                /\ ret' = FALSE
                /\ UNCHANGED <<given_password, deleted>>
           ELSE /\ printed' = << <<"User ", username, " deleted.">> >>
                /\ ret' = TRUE
                /\ given_password' =
                       {g \in given_password : g.digest # users[i].password_hashed}
                /\ deleted' = deleted \cup {username}
        /\ UNCHANGED <<current_user, session_token, uuid_next, issued, hashrun, threads>>

\* ----------------------------------------------------------- specification
Next ==
    \/ \E s \in Services, user_class \in UserClasses, username \in Usernames,
          email \in Emails, password \in Passwords :
          \E arg \in VariantArgs(user_class) :
             register(s, user_class, username, email, password, arg)
    \/ \E s \in Services, username \in Usernames, password \in Passwords :
          login(s, username, password)
    \/ \E s \in Services : logout(s)
    \/ \E s \in Services : get_current_user(s)
    \/ list_users
    \/ \E username \in Usernames : delete_user(username)

Spec == Init /\ [][Next]_vars

\* --------------------------------------------------------- hashing harness
\* The passwords the harness draws: every string over PwChars up to MaxPwLen.
HarnessPasswords == UNION {[1..k -> PwChars] : k \in 0..MaxPwLen}

InitHash ==
    /\ users = <<>>
    /\ current_user = [s \in Services |-> None]
    /\ session_token = [s \in Services |-> None]
    /\ uuid_next = 0
    /\ call = [op |-> "none", svc |-> 0, username |-> "", password |-> <<>>,
               prior |-> None]
    /\ ret = None
    /\ printed = <<>>
    /\ issued = {}
    /\ given_password = {}
    /\ deleted = {}
    /\ threads = <<>>
    /\ hashrun \in [password : HarnessPasswords, provided : HarnessPasswords,
                    n : 0..(MaxUuid - 1), stored : {None}, result : {None}]

\* stored = User.hash_password(password), the random source at position n.
HashStep ==
    /\ hashrun.stored = None
    /\ hashrun' = [hashrun EXCEPT !.stored = Some(hash_password(hashrun.password, hashrun.n))]
    /\ UNCHANGED <<users, current_user, session_token, uuid_next, call, ret, printed,
                   issued, given_password, deleted, threads>>

\* result = User.check_password(stored, provided).
CheckStep ==
    /\ hashrun.stored # None
    /\ hashrun.result = None
    /\ hashrun' = [hashrun EXCEPT !.result =
                       Some(check_password(hashrun.stored[1], hashrun.provided))]
    /\ UNCHANGED <<users, current_user, session_token, uuid_next, call, ret, printed,
                   issued, given_password, deleted, threads>>

NextHash == HashStep \/ CheckStep

SpecHash == InitHash /\ [][NextHash]_vars

\* ------------------------------------------------------------ result texts
AlreadyExists == "Error: user named "
LoginSucceeded == "Login succeeded. Current user: "
InvalidCredentials == "Error: wrong password."
UserNotFound == "Error: user "
NoActiveSession == "Error: nobody is logged in."
LoggedOut == "User "
NobodyLoggedIn == "Nobody is logged in now."

\* Some service holds a session whose principal is an Admin.
AdminSessionActive ==
    \E s \in Services :
        /\ current_user[s] # None
        /\ current_user[s][1].cls = "Admin"

\* ------------------------------------------------------------------ claims
\* C1: in every state reachable from the empty registry by register, login,
\* logout and delete_user calls, no two principals of User.users have the
\* same username.
C1_UniqueUsernames ==
    \A i, j \in 1..Len(users) :
        i # j => users[i].username # users[j].username

\* C1 witness: the registry holds two principals and a register call for a
\* username already present has just been refused.
C1_Witness ==
    /\ Len(users) = 2
    /\ call.op = "register"
    /\ ret[1] = AlreadyExists

\* C2: the administrative operations are gated by the session: a principal
\* is never removed from the registry by delete_user in a state where no
\* Admin session is active.
C2_DeleteNeedsAdminSession ==
    [][(call'.op = "delete_user" /\ users' # users) => AdminSessionActive]_vars

\* C3: when the currently authenticated Admin deletes their own username,
\* delete_user logs that session out in the same operation: afterwards
\* current_user and session_token of the session are None.
C3_SelfDeleteLogsOut ==
    [][\A s \in Services :
          (/\ call'.op = "delete_user"
           /\ ret' = TRUE
           /\ current_user[s] # None
           /\ current_user[s][1].cls = "Admin"
           /\ current_user[s][1].username = call'.username)
          => (current_user'[s] = None /\ session_token'[s] = None)]_vars

\* C4: register with a username that is already in the registry returns the
\* already-exists failure and mutates nothing: the registry (contents, order,
\* size, every stored digest) is the same before and after the call.
C4_RegisterExistingNoMutation ==
    [][(call'.op = "register"
        /\ \E i \in 1..Len(users) : users[i].username = call'.username)
       => (/\ ret' = <<AlreadyExists, call'.username, " already exists.">>
           /\ users' = users
           /\ uuid_next' = uuid_next)]_vars

\* C4 witness: a register call for a username present in the registry has
\* just returned the already-exists failure.
C4_Witness ==
    /\ call.op = "register"
    /\ ret[1] = AlreadyExists
    /\ \E i \in 1..Len(users) : users[i].username = call.username

\* C5: a login that fails with the wrong-password error leaves current_user
\* and session_token of the service as they were, whether the session was
\* Anonymous or Authenticated as any principal.
C5_FailedLoginKeepsSession ==
    [][\A s \in Services :
          (call'.op = "login" /\ call'.svc = s /\ ret'[1] = InvalidCredentials)
          => (/\ current_user'[s] = current_user[s]
              /\ session_token'[s] = session_token[s])]_vars

\* C5 witness: a login with a wrong password for one principal has just
\* failed on a service that is authenticated as another principal.
C5_Witness ==
    /\ call.op = "login"
    /\ ret[1] = InvalidCredentials
    /\ current_user[call.svc] # None
    /\ session_token[call.svc] # None
    /\ current_user[call.svc][1].username # call.username

\* The password given at the registration of the registry's principal with
\* the username.
RegisteredPassword(username) ==
    LET i == CHOOSE k \in 1..Len(users) : users[k].username = username
        g == CHOOSE h \in given_password : h.digest = users[i].password_hashed
    IN  g.password

\* C6: login(u, p) has exactly one of three outcomes: user-not-found iff no
\* principal with username u is in the registry; wrong-password iff such a
\* principal exists and p differs from the password given at its
\* registration; success otherwise.
C6_LoginOutcome ==
    [][call'.op = "login" =>
          LET u == call'.username
              p == call'.password
              present == \E i \in 1..Len(users) : users[i].username = u
          IN  /\ ret'[1] \in {UserNotFound, InvalidCredentials, LoginSucceeded}
              /\ (ret'[1] = UserNotFound) <=> ~present
              /\ (ret'[1] = InvalidCredentials) <=>
                     (present /\ p # RegisteredPassword(u))
              /\ (ret'[1] = LoginSucceeded) <=>
                     (present /\ p = RegisteredPassword(u))]_vars

\* C6 witness: a login has just failed with the wrong-password error for a
\* username that was deleted and then registered again.
C6_Witness ==
    /\ call.op = "login"
    /\ ret[1] = InvalidCredentials
    /\ call.username \in deleted
    /\ \E i \in 1..Len(users) : users[i].username = call.username

C8_FreshToken ==
    [][\A s \in Services :
          (call'.op = "login" /\ call'.svc = s /\ ret'[1] = LoginSucceeded)
          => /\ session_token'[s] # None
             /\ Len(session_token'[s][1]) > 0
             /\ session_token'[s][1] \notin issued]_vars

\* C8 witness: a login has just succeeded after an earlier successful login
\* and a logout in between, so two tokens have been issued.
C8_Witness ==
    /\ call.op = "login"
    /\ ret[1] = LoginSucceeded
    /\ call.prior = None
    /\ Cardinality(issued) >= 2

\* C9: logout on an Anonymous service fails with the no-active-session error
\* and changes nothing; logout on an Authenticated service returns the
\* username that was logged in and clears current_user and session_token;
\* from then on get_current_user reports nobody until the next successful
\* login.
C9_Logout ==
    [][\A s \in Services :
          /\ (call'.op = "logout" /\ call'.svc = s) =>
                IF current_user[s] = None
                THEN /\ ret' = <<NoActiveSession>>
                     /\ users' = users
                     /\ current_user' = current_user
                     /\ session_token' = session_token
                ELSE /\ ret' = <<LoggedOut, current_user[s][1].username, " logged out.">>
                     /\ current_user'[s] = None
                     /\ session_token'[s] = None
          /\ (current_user[s] = None
              /\ ~(call'.op = "login" /\ call'.svc = s /\ ret'[1] = LoginSucceeded))
             => current_user'[s] = None
          /\ (call'.op = "get_current_user" /\ call'.svc = s /\ current_user[s] = None)
             => ret' = <<NobodyLoggedIn>>]_vars

\* C9 witness: get_current_user has just reported nobody on a service that
\* had issued a token and was logged out.
C9_Witness ==
    /\ call.op = "get_current_user"
    /\ ret = <<NobodyLoggedIn>>
    /\ issued # {}
    /\ current_user[call.svc] = None
    /\ session_token[call.svc] = None

\* C10: for all passwords P, Q and every salt, check_password(hash_password(P), Q)
\* is true iff P = Q, also for passwords that contain "$".
C10_VerifyIffEqual ==
    hashrun.result # None =>
        (hashrun.result[1] <=> (hashrun.password = hashrun.provided))

\* C10 witness: a password containing "$" has been hashed and has verified
\* against itself.
C10_Witness ==
    /\ hashrun.result = Some(TRUE)
    /\ \E i \in 1..Len(hashrun.password) : hashrun.password[i] = "$"

\* ------------------------------------------------- malformed stored digests
\* Stored strings that are not of the form salt$hash: no "$" at all, or more
\* than one.
MalformedDigests ==
    {d \in UNION {[1..k -> PwChars] : k \in 0..MaxDigestLen} :
        Cardinality({i \in 1..Len(d) : d[i] = "$"}) # 1}

\* A principal whose password_hashed attribute holds the string d.
WithDigest(user, d) == [user EXCEPT !.password_hashed = d]

\* The registry holds one principal whose stored digest is malformed; the
\* harness holds the same stored string and a candidate password.
InitMalformed ==
    /\ \E d \in MalformedDigests, provided \in HarnessPasswords,
          email \in Emails, address \in Addresses :
          /\ users = <<WithDigest(Customer("mikhail", email, <<>>, address, 0), d)>>
          /\ hashrun = [password |-> <<>>, provided |-> provided, n |-> 0,
                        stored |-> Some(d), result |-> None]
    /\ current_user = [s \in Services |-> None]
    /\ session_token = [s \in Services |-> None]
    /\ uuid_next = 1
    /\ call = [op |-> "none", svc |-> 0, username |-> "", password |-> <<>>,
               prior |-> None]
    /\ ret = None
    /\ printed = <<>>
    /\ issued = {}
    /\ given_password = {}
    /\ deleted = {}
    /\ threads = <<>>

NextMalformed ==
    \/ CheckStep
    \/ \E s \in Services, username \in Usernames, password \in Passwords :
          login(s, username, password)

SpecMalformed == InitMalformed /\ [][NextMalformed]_vars

\* C11: check_password on a malformed stored digest (no "$", or more than one
\* "$") returns False for every candidate password, and login against a
\* principal whose stored digest is malformed returns the wrong-password
\* error.
C11_MalformedDigestRejected ==
    /\ hashrun.result # None => hashrun.result = Some(FALSE)
    /\ (call.op = "login" /\ call.username = users[1].username)
       => ret = <<InvalidCredentials>>

\* C11 witness: check_password has returned False on a stored string with
\* two "$", and a login against the principal has just been refused.
C11_Witness ==
    /\ hashrun.result = Some(FALSE)
    /\ Cardinality({i \in 1..Len(hashrun.stored[1]) : hashrun.stored[1][i] = "$"}) = 2
    /\ call.op = "login"
    /\ ret = <<InvalidCredentials>>

\* The text of a successful register.
Registered == "User "

\* C12: register, whether it succeeds or fails with the already-exists
\* error, leaves current_user and session_token as they were, in the
\* Anonymous and in the Authenticated state.
C12_RegisterKeepsSession ==
    [][call'.op = "register"
       => (current_user' = current_user /\ session_token' = session_token)]_vars

\* C12 witness: a register call has just succeeded on a service that is
\* authenticated as an earlier principal.
C12_Witness ==
    /\ call.op = "register"
    /\ ret[1] = Registered
    /\ ret[2] = call.username
    /\ call.prior # None
    /\ current_user[call.svc] # None
    /\ current_user[call.svc][1].username # call.username

Task(op, pc, user_class, username, email, password, arg, users0) ==
    [op |-> op, pc |-> pc, user_class |-> user_class, username |-> username,
     email |-> email, password |-> password, arg |-> arg, idx |-> 0,
     target |-> None, result |-> None, users0 |-> users0]

\* The quiescent part of the state when the threads start.
InitQuiescent ==
    /\ current_user = [s \in Services |-> None]
    /\ session_token = [s \in Services |-> None]
    /\ call = [op |-> "none", svc |-> 0, username |-> "", password |-> <<>>,
               prior |-> None]
    /\ ret = None
    /\ printed = <<>>
    /\ issued = {}
    /\ given_password = {}
    /\ deleted = {}
    /\ hashrun = NoHashRun

\* The register calls a thread may be making.
RegisterTasks ==
    UNION {{Task("register", "scan", user_class, username, email, password, arg, <<>>) :
               username \in Usernames, email \in Emails, password \in Passwords,
               arg \in VariantArgs(user_class)} : user_class \in UserClasses}

\* Every thread is about to call register on the empty registry.
InitConcRegister ==
    /\ users = <<>>
    /\ uuid_next = 0
    /\ threads \in [Threads -> RegisterTasks]
    /\ InitQuiescent

\* register, lines 137-139: the uniqueness scan over User.users.
RegisterScan(t) ==
    /\ threads[t].op = "register"
    /\ threads[t].pc = "scan"
    /\ threads' =
           [threads EXCEPT ![t] =
               IF username_taken(users, threads[t].username)
               THEN [@ EXCEPT !.pc = "done",
                              !.result = Some(<<AlreadyExists, threads[t].username,
                                                " already exists.">>)]
               ELSE [@ EXCEPT !.pc = "construct"]]
    /\ UNCHANGED <<users, current_user, session_token, uuid_next, call, ret, printed,
                   issued, given_password, deleted, hashrun>>

\* register, lines 142-146: the constructor hashes the password and appends
\* the new principal to User.users.
RegisterConstruct(t) ==
    /\ threads[t].op = "register"
    /\ threads[t].pc = "construct"
    /\ users' = Append(users,
                       new_user(threads[t].user_class, threads[t].username,
                                threads[t].email, threads[t].password,
                                threads[t].arg, uuid_next))
    /\ uuid_next' = uuid_next + 1
    /\ threads' =
           [threads EXCEPT ![t] =
               [@ EXCEPT !.pc = "done",
                         !.result = Some(<<Registered, threads[t].username,
                                           " successfully registered as ",
                                           threads[t].user_class, ".">>)]]
    /\ UNCHANGED <<current_user, session_token, call, ret, printed, issued,
                   given_password, deleted, hashrun>>

NextConcRegister ==
    \/ \E t \in Threads : RegisterScan(t)
    \/ \E t \in Threads : RegisterConstruct(t)

SpecConcRegister == InitConcRegister /\ [][NextConcRegister]_vars

\* C14: when register calls for the same username run concurrently, at most
\* one of them succeeds and the registry never holds two principals with
\* that username.
C14_ConcurrentRegisterUnique ==
    /\ \A i, j \in 1..Len(users) :
          i # j => users[i].username # users[j].username
    /\ \A t1, t2 \in Threads :
          (/\ t1 # t2
           /\ threads[t1].username = threads[t2].username
           /\ threads[t1].result # None
           /\ threads[t2].result # None)
          => ~(/\ threads[t1].result[1][1] = Registered
               /\ threads[t2].result[1][1] = Registered)

\* C15: in every reachable state, the principal a service holds as
\* current_user is an element of User.users: no session references a
\* principal that has been removed.
C15_SessionPointsIntoRegistry ==
    \A s \in Services :
        current_user[s] # None
        => \E i \in 1..Len(users) : users[i] = current_user[s][1]

\* ------------------------------------------- login concurrent with delete
\* The thread that runs Admin.delete_user; the other threads run login.
Deleter == 2

\* Two principals have been registered one after the other; one thread is
\* about to call delete_user and the others login on service 1.
InitConcLogin ==
    /\ \E u1, u2 \in Usernames, p1, p2 \in Passwords, c1, c2 \in UserClasses,
          email \in Emails :
          \E a1 \in VariantArgs(c1), a2 \in VariantArgs(c2) :
             LET r1 == register_users(<<>>, c1, u1, email, p1, a1, 0)
                 r2 == register_users(r1, c2, u2, email, p2, a2, 1)
             IN  /\ u1 # u2
                 /\ users = r2
                 /\ \E v, u \in Usernames, p \in Passwords :
                       threads =
                           [t \in Threads |->
                               IF t = Deleter
                               THEN Task("delete_user", "scan", "", v, "", <<>>, "", r2)
                               ELSE Task("login", "iter", "", u, "", p, "", r2)]
    /\ uuid_next = 2
    /\ InitQuiescent

\* login, lines 152-164: one turn of `for user in User.users`.  The list
\* iterator reads the live list at its index; the loop ends when the index
\* has reached the length the list has at that moment.
LoginIter(t) ==
    LET idx == threads[t].idx
        username == threads[t].username
        password == threads[t].password
        s == 1
    IN  /\ threads[t].op = "login"
        /\ threads[t].pc = "iter"
        /\ IF idx >= Len(users)
           THEN /\ threads' =
                       [threads EXCEPT ![t] =
                           [@ EXCEPT !.pc = "done",
                                     !.result = Some(<<UserNotFound, username,
                                                       " not found.">>)]]
                /\ UNCHANGED <<current_user, session_token, uuid_next, issued>>
           ELSE LET user == users[idx + 1]
                IN  IF user.username # username
                    THEN /\ threads' = [threads EXCEPT ![t] = [@ EXCEPT !.idx = idx + 1]]
                         /\ UNCHANGED <<current_user, session_token, uuid_next, issued>>
                    ELSE IF check_password(user.password_hashed, password)
                    THEN /\ current_user' = [current_user EXCEPT ![s] = Some(user)]
                         /\ session_token' =
                                [session_token EXCEPT
                                    ![s] = Some(new_session_token(uuid_next))]
                         /\ uuid_next' = uuid_next + 1
                         /\ issued' = issued \cup {new_session_token(uuid_next)}
                         /\ threads' =
                                [threads EXCEPT ![t] =
                                    [@ EXCEPT !.pc = "done",
                                              !.result =
                                                  Some(<<LoginSucceeded, username,
                                                         ", session token: ",
                                                         new_session_token(uuid_next)>>)]]
                    ELSE /\ threads' =
                                [threads EXCEPT ![t] =
                                    [@ EXCEPT !.pc = "done",
                                              !.result = Some(<<InvalidCredentials>>)]]
                         /\ UNCHANGED <<current_user, session_token, uuid_next, issued>>
        /\ UNCHANGED <<users, call, ret, printed, given_password, deleted, hashrun>>

\* delete_user, lines 109-110: the loop over the copy list(User.users) up to
\* the principal with the username.
DeleteScan(t) ==
    LET copy == users
        i == find_user(copy, threads[t].username)
    IN  /\ threads[t].op = "delete_user"
        /\ threads[t].pc = "scan"
        /\ threads' =
               [threads EXCEPT ![t] =
                   IF i = 0
                   THEN [@ EXCEPT !.pc = "done", !.result = Some(FALSE)]
                   ELSE [@ EXCEPT !.pc = "remove", !.target = Some(copy[i])]]
        /\ UNCHANGED <<users, current_user, session_token, uuid_next, call, ret,
                       printed, issued, given_password, deleted, hashrun>>

\* delete_user, lines 111-113: User.users.remove(user).
DeleteRemove(t) ==
    /\ threads[t].op = "delete_user"
    /\ threads[t].pc = "remove"
    /\ users' = list_remove(users, threads[t].target[1])
    /\ threads' = [threads EXCEPT ![t] = [@ EXCEPT !.pc = "done", !.result = Some(TRUE)]]
    /\ UNCHANGED <<current_user, session_token, uuid_next, call, ret, printed, issued,
                   given_password, deleted, hashrun>>

NextConcLogin ==
    \/ \E t \in Threads : LoginIter(t)
    \/ \E t \in Threads : DeleteScan(t)
    \/ \E t \in Threads : DeleteRemove(t)

SpecConcLogin == InitConcLogin /\ [][NextConcLogin]_vars

\* The branch of login a returned message stands for.
OutcomeOf(message) ==
    IF message[1] = LoginSucceeded THEN "ok"
    ELSE IF message[1] = InvalidCredentials THEN "wrong_password"
    ELSE "not_found"

\* C16: a login(u, p) that runs concurrently with delete_user(v) returns what
\* it would have returned run entirely before or entirely after the delete;
\* in particular, for u different from v with u in the registry and p
\* correct, login does not return the not-found error.
C16_LoginAtomicWithDelete ==
    \A t \in Threads :
        (threads[t].op = "login" /\ threads[t].result # None)
        => LET u == threads[t].username
               p == threads[t].password
               v == threads[Deleter].username
               users0 == threads[t].users0
               outcome == OutcomeOf(threads[t].result[1])
           IN  /\ outcome \in {login_outcome(users0, u, p),
                               login_outcome(delete_user_users(users0, v), u, p)}
               /\ (u # v /\ login_outcome(users0, u, p) = "ok") => outcome = "ok"

\* C17: the session of a service is Anonymous or Authenticated: in every
\* reachable state current_user is None iff session_token is None (both are
\* None initially).
C17_SessionTwoStates ==
    \A s \in Services :
        (current_user[s] = None) <=> (session_token[s] = None)

\* C17 witness: a service is Authenticated, principal and token both set,
\* after a delete_user call has gone through.
C17_Witness ==
    /\ call.op = "delete_user"
    /\ ret = TRUE
    /\ \E s \in Services : current_user[s] # None /\ session_token[s] # None

\* C18: a successful register appends the new principal at the end of the
\* registry and leaves the existing entries and their order unchanged;
\* list_users enumerates the registry in that order, and reports the empty
\* registry as such.
C18_RegistrationOrder ==
    [][/\ (call'.op = "register" /\ ret'[1] = Registered)
          => /\ Len(users') = Len(users) + 1
             /\ SubSeq(users', 1, Len(users)) = users
             /\ users'[Len(users')].username = call'.username
             /\ users'[Len(users')].cls = ret'[4]
       /\ call'.op = "list_users"
          => /\ users' = users
             /\ IF users = <<>>
                THEN printed' = <<"No users yet.">>
                ELSE /\ Len(printed') = Len(users) + 1
                     /\ printed'[1] = "User list:"
                     /\ \A i \in 1..Len(users) :
                           printed'[i + 1] = <<"-", get_details(users[i])>>]_vars

\* C18 witness: Customer mikhail and then Admin root were registered, and
\* list_users has just printed them in that order.
C18_Witness ==
    /\ call.op = "list_users"
    /\ Len(users) = 2
    /\ users[1].username = "mikhail" /\ users[1].cls = "Customer"
    /\ users[2].username = "root" /\ users[2].cls = "Admin"
    /\ printed[2][2][2] = "mikhail"
    /\ printed[3][2][2] = "root"

\* C19: principals are created only by a successful register and destroyed
\* only by a successful delete_user: login, logout, get_current_user and
\* list_users leave the registry unchanged, and a principal of the registry
\* keeps its username and stored digest for as long as it is there.
C19_RegistryLifecycle ==
    [][/\ call'.op \in {"login", "logout", "get_current_user", "list_users"}
          => users' = users
       /\ users' # users
          => \/ /\ call'.op = "register"
                /\ ret'[1] = Registered
                /\ Len(users') = Len(users) + 1
             \/ /\ call'.op = "delete_user"
                /\ ret' = TRUE
                /\ Len(users') = Len(users) - 1
       /\ \A i \in 1..Len(users') :
             \/ \E j \in 1..Len(users) : users[j] = users'[i]
             \/ /\ call'.op = "register"
                /\ ret'[1] = Registered
                /\ i = Len(users')]_vars

\* C19 witness: a logout has just succeeded with a principal in the registry
\* after an earlier principal was deleted.
C19_Witness ==
    /\ call.op = "logout"
    /\ ret[1] = LoggedOut
    /\ Len(users) >= 1
    /\ deleted # {}

====
